---- MODULE Spec2Model ----
(***************************************************************************)
(* Model of polls_and_questions/views.py: the request handlers that manage *)
(* the default and per-resource poll / question configurations of an event *)
(* ("watchit").  The database tables are the state; every handler is a     *)
(* sequence of ORM calls, each of them one step on the database.  Spec runs *)
(* each handler to completion as one action (one request at a time);       *)
(* StepSpec runs one request step by step and lets it fail between steps;  *)
(* ConcSpec interleaves the steps of two requests.                         *)
(***************************************************************************)
EXTENDS Integers, FiniteSets, TLC

VARIABLES EventConfig,   \* table: watchit_uuid -> [default_polls_config, default_questions_config]
          Config,        \* tables PollConfig / QuestionConfig: kind -> (pk -> [enabled, settings])
          next_pk,       \* kind -> next primary key the table hands out
          Poll,          \* table Poll: the set of poll ids
          response,      \* Spec: the last request handled and what it returned
          requests       \* StepSpec / ConcSpec: each worker's request in flight

vars == <<EventConfig, Config, next_pk, Poll, response, requests>>

-----------------------------------------------------------------------------
(* Bounds and domains *)

MaxId == 3                      \* primary keys a config table hands out

Ids == 1..MaxId
None == 0
Kinds == {"poll", "question"}
Watchits == {"e1", "e2", "ex"}
KnownWatchits == {"e1", "e2"}   \* the events services.check_watchit_uuid recognises
ScopeWatchits == {"e1", "ex"}   \* the events named in requests that address a record by its own id
PollIds == {1, 2}
Settings == {1}                 \* the valid values of a config's kind-specific setting
Workers == {"w1", "w2"}

\* request.data of a default-config POST: the last one lacks a required field
PostPayloads == {[enabled |-> TRUE, settings |-> 1], [enabled |-> FALSE, settings |-> 1],
                 [enabled |-> TRUE]}
\* request.data of a per-resource PUT: the last one carries an invalid value
PutPayloads == {[enabled |-> FALSE], [settings |-> -1]}
NoData == [none |-> TRUE]

-----------------------------------------------------------------------------
(* Names that differ between the poll and the question handlers *)

RefField(k) == IF k = "poll" THEN "default_polls_config" ELSE "default_questions_config"
\* Mutant of IdField: the question handlers name the poll handlers' key
IdField_copied(k) == "poll_configuration_id"
IdField(k) == IF k = "poll" THEN "poll_configuration_id" ELSE "question_configuration_id"
NotFoundMsg(k) == IF k = "poll" THEN "poll config not found" ELSE "question config not found"

-----------------------------------------------------------------------------
(* The serializers (polls_and_questions/serializers.py) *)

RequiredFields == {"enabled", "settings"}
is_valid(data) ==
    /\ RequiredFields \subseteq DOMAIN data
    /\ data.settings \in Settings
serializer_errors(data) ==
    [f \in RequiredFields \ DOMAIN data |-> "This field is required."]
update_is_valid(data) ==
    /\ DOMAIN data \subseteq RequiredFields
    /\ ("settings" \in DOMAIN data => data.settings \in Settings)
update_errors(data) == [f \in {"settings"} |-> "invalid"]
\* serializer.data of a config record
Representation(pk, rec) == [id |-> pk, enabled |-> rec.enabled, settings |-> rec.settings]
\* serializer.update(instance, request.data): every key of the payload is set
ApplyUpdate(rec, data) == [f \in DOMAIN rec |-> IF f \in DOMAIN data THEN data[f] ELSE rec[f]]

-----------------------------------------------------------------------------
(* The database: the ORM calls the handlers make *)

DB == [EventConfig |-> EventConfig, Config |-> Config, next_pk |-> next_pk, Poll |-> Poll]

BlankRow == [default_polls_config |-> None, default_questions_config |-> None]
BlankObj == [id |-> None, enabled |-> FALSE, settings |-> 0]

Without(f, x) == [y \in DOMAIN f \ {x} |-> f[y]]
Put(f, x, v) == [y \in DOMAIN f \cup {x} |-> IF y = x THEN v ELSE f[y]]

Exists(db, k, pk) == pk \in DOMAIN db.Config[k]

\* EventConfig.objects.get_or_create(watchit_uuid=...)
get_or_create(db, uuid) ==
    IF uuid \in DOMAIN db.EventConfig THEN db
    ELSE [db EXCEPT !.EventConfig = Put(@, uuid, BlankRow)]

\* serializer.save() of a new config: INSERT with a fresh primary key
create(db, k, data) ==
    [db EXCEPT !.Config[k] = Put(@, db.next_pk[k], [enabled |-> data.enabled, settings |-> data.settings]),
               !.next_pk[k] = @ + 1]

\* A foreign key of a row to save refers to a row that exists (or is NULL)
RefsExist(db, row) ==
    \A k \in Kinds : row[RefField(k)] = None \/ Exists(db, k, row[RefField(k)])

\* Mutant of save_event_config: the row is never written
save_event_config_skipped(db, uuid, row) == db

\* event_config.save(): writes every column of the row as the handler holds it
save_event_config(db, uuid, row) == [db EXCEPT !.EventConfig = Put(@, uuid, row)]

\* instance.save() of a config: UPDATE of every column, INSERT when the row is gone
save_config(db, k, obj) ==
    [db EXCEPT !.Config[k] = Put(@, obj.id, [enabled |-> obj.enabled, settings |-> obj.settings])]

\* What deleting a config does to the EventConfig rows that still refer to it
on_delete(ecs, k, pk) ==
    [u \in DOMAIN ecs |->
        IF ecs[u][RefField(k)] = pk THEN [ecs[u] EXCEPT ![RefField(k)] = None] ELSE ecs[u]]

\* instance.delete() of a config
delete(db, k, pk) ==
    [db EXCEPT !.Config[k] = Without(@, pk),
               !.EventConfig = on_delete(@, k, pk)]

-----------------------------------------------------------------------------
(* Responses *)

Response(data, status) == [raised |-> "", status |-> status, data |-> data]
ValidationError(detail) == [raised |-> "ValidationError", status |-> 400, data |-> detail]
ServerError(exc) == [raised |-> exc, status |-> 500, data |-> NoData]
NoResponse == [raised |-> "", status |-> 0, data |-> NoData]

\* ConfigManager._validate_watchit_uuid
check_watchit_uuid(uuid) == uuid \in KnownWatchits
WatchitNotFound == ValidationError([watchit_uuid |-> "watchit not found"])
\* ConfigManager._get_event_config
EventConfigNotFound == ValidationError([watchit_uuid |-> "event config not found"])

-----------------------------------------------------------------------------
(* A request and the handler's local variables while it runs *)

DefaultOps == {"default_get", "default_post", "default_patch"}
Requests ==
       [op : {"default_get", "default_patch"}, kind : Kinds, watchit_uuid : Watchits,
        id : {None}, data : {NoData}]
  \cup [op : {"default_post"}, kind : Kinds, watchit_uuid : Watchits,
        id : {None}, data : PostPayloads]
  \cup [op : {"config_get"}, kind : Kinds, watchit_uuid : ScopeWatchits, id : Ids, data : {NoData}]
  \cup [op : {"config_put"}, kind : Kinds, watchit_uuid : ScopeWatchits, id : Ids, data : PutPayloads]
  \cup [op : {"poll_get"}, kind : {"poll"}, watchit_uuid : ScopeWatchits, id : PollIds, data : {NoData}]
NoRequest == [op |-> "none", kind |-> "poll", watchit_uuid |-> "ex", id |-> None, data |-> NoData]

Idle == [pc |-> "idle", request |-> NoRequest, event_config |-> BlankRow,
         old_config |-> None, new_config |-> None, obj |-> BlankObj, response |-> NoResponse]
Start(req) == [Idle EXCEPT !.pc = "start", !.request = req]

Return(db, self, resp) ==
    [db |-> db, self |-> [self EXCEPT !.pc = "done", !.response = resp]]
Raise(db, self, exc) ==
    [db |-> db, self |-> [self EXCEPT !.pc = "done", !.response = exc]]
Goto(db, self, label) == [db |-> db, self |-> [self EXCEPT !.pc = label]]

-----------------------------------------------------------------------------
(* DefaultConfig{Poll,Question}ManagerApiView.get and .patch *)

\* Mutant of default_begin: the row is fetched with get_or_create, as post does
default_begin_get_or_create(db, self) ==
    LET uuid == self.request.watchit_uuid
        db1 == get_or_create(db, uuid) IN
    IF ~check_watchit_uuid(uuid) THEN Raise(db, self, WatchitNotFound)
    ELSE Goto(db1, [self EXCEPT !.event_config = db1.EventConfig[uuid]], "fetch_default")

\* _validate_watchit_uuid, then _get_event_config
default_begin(db, self) ==
    LET uuid == self.request.watchit_uuid IN
    IF ~check_watchit_uuid(uuid) THEN Raise(db, self, WatchitNotFound)
    ELSE IF uuid \notin DOMAIN db.EventConfig THEN Raise(db, self, EventConfigNotFound)
    ELSE Goto(db, [self EXCEPT !.event_config = db.EventConfig[uuid]], "fetch_default")

\* `if event_config.default_<kind>s_config:` loads the referenced record
fetch_default(db, self) ==
    LET k == self.request.kind
        pk == self.event_config[RefField(k)] IN
    IF pk = None THEN Raise(db, self, ValidationError([watchit_uuid |-> NotFoundMsg(k)]))
    ELSE IF ~Exists(db, k, pk) THEN Raise(db, self, ServerError("DoesNotExist"))
    ELSE LET obj == Representation(pk, db.Config[k][pk]) IN
         IF self.request.op = "default_get" THEN Return(db, self, Response(obj, 200))
         ELSE Goto(db, [self EXCEPT !.obj = obj], "patch_save")

\* Mutant of toggle: the flag is switched on, never off
toggle_enable_only(obj) == [obj EXCEPT !.enabled = TRUE]

\* default_config.enabled = not default_config.enabled
toggle(obj) == [obj EXCEPT !.enabled = ~@]

\* default_config.save() and the response of patch
patch_save(db, self) ==
    LET obj == toggle(self.obj) IN
    Return(save_config(db, self.request.kind, obj), [self EXCEPT !.obj = obj],
           Response([enabled |-> obj.enabled], 200))

-----------------------------------------------------------------------------
(* DefaultConfig{Poll,Question}ManagerApiView.post *)

\* Mutant of post_begin: get_or_create runs before the payload is validated
post_begin_create_first(db, self) ==
    LET uuid == self.request.watchit_uuid
        data == self.request.data
        db1 == get_or_create(db, uuid) IN
    IF ~check_watchit_uuid(uuid) THEN Raise(db, self, WatchitNotFound)
    ELSE IF ~is_valid(data) THEN Return(db1, self, Response(serializer_errors(data), 400))
    ELSE Goto(db1, [self EXCEPT !.event_config = db1.EventConfig[uuid]], "read_old")

\* _validate_watchit_uuid, serializer.is_valid(), EventConfig.objects.get_or_create
post_begin(db, self) ==
    LET uuid == self.request.watchit_uuid
        data == self.request.data IN
    IF ~check_watchit_uuid(uuid) THEN Raise(db, self, WatchitNotFound)
    ELSE IF ~is_valid(data) THEN Return(db, self, Response(serializer_errors(data), 400))
    ELSE LET db1 == get_or_create(db, uuid) IN
         Goto(db1, [self EXCEPT !.event_config = db1.EventConfig[uuid]], "read_old")

\* old_config = event_config.default_<kind>s_config  (loads the referenced record)
post_read_old(db, self) ==
    LET k == self.request.kind
        pk == self.event_config[RefField(k)] IN
    IF pk # None /\ ~Exists(db, k, pk) THEN Raise(db, self, ServerError("DoesNotExist"))
    ELSE Goto(db, [self EXCEPT !.old_config = pk], "save_new")

\* Mutant of post_save_new: the old record is deleted before the new one is linked
post_save_new_delete_first(db, self) ==
    LET k == self.request.kind
        db1 == IF self.old_config # None THEN delete(db, k, self.old_config) ELSE db IN
    Goto(create(db1, k, self.request.data), [self EXCEPT !.new_config = db.next_pk[k]],
         "save_link")

\* new_config = serializer.save()
post_save_new(db, self) ==
    LET k == self.request.kind IN
    Goto(create(db, k, self.request.data), [self EXCEPT !.new_config = db.next_pk[k]],
         "save_link")

\* event_config.default_<kind>s_config = new_config; event_config.save()
post_save_link(db, self) ==
    LET k == self.request.kind
        row == [self.event_config EXCEPT ![RefField(k)] = self.new_config] IN
    IF ~RefsExist(db, row) THEN Raise(db, self, ServerError("IntegrityError"))
    ELSE Goto(save_event_config(db, self.request.watchit_uuid, row),
              [self EXCEPT !.event_config = row], "delete_old")

\* Mutant of post_delete_old: the old record is kept
post_delete_old_skipped(db, self) ==
    Return(db, self,
           Response([id |-> self.new_config, enabled |-> self.request.data.enabled,
                     settings |-> self.request.data.settings], 201))

\* if old_config: old_config.delete(); the 201 response
post_delete_old(db, self) ==
    LET k == self.request.kind
        db1 == IF self.old_config # None THEN delete(db, k, self.old_config) ELSE db IN
    Return(db1, self,
           Response([id |-> self.new_config, enabled |-> self.request.data.enabled,
                     settings |-> self.request.data.settings], 201))

-----------------------------------------------------------------------------
(* Config{Poll,Question}ManagerApiView.get and .put, PollManagerApiView.get *)

ConfigNotFound(k) == ValidationError([f \in {IdField(k)} |-> NotFoundMsg(k)])

config_get(db, self) ==
    LET k == self.request.kind
        pk == self.request.id IN
    IF ~check_watchit_uuid(self.request.watchit_uuid) THEN Raise(db, self, WatchitNotFound)
    ELSE IF ~Exists(db, k, pk) THEN Raise(db, self, ConfigNotFound(k))
    ELSE Return(db, self, Response(Representation(pk, db.Config[k][pk]), 200))

\* _validate_watchit_uuid, objects.get(pk=...), the update serializer's is_valid()
put_begin(db, self) ==
    LET k == self.request.kind
        pk == self.request.id IN
    IF ~check_watchit_uuid(self.request.watchit_uuid) THEN Raise(db, self, WatchitNotFound)
    ELSE IF ~Exists(db, k, pk) THEN Raise(db, self, ConfigNotFound(k))
    ELSE IF ~update_is_valid(self.request.data)
         THEN Return(db, self, Response(update_errors(self.request.data), 400))
    ELSE Goto(db, [self EXCEPT !.obj = Representation(pk, db.Config[k][pk])], "put_update")

\* serializer.update(config, request.data) and the response of put
put_update(db, self) ==
    LET obj == [ApplyUpdate(self.obj, self.request.data) EXCEPT !.id = self.obj.id] IN
    Return(save_config(db, self.request.kind, obj), [self EXCEPT !.obj = obj],
           Response(obj, 200))

\* Mutant of poll_get: the event is not validated
poll_get_unvalidated(db, self) ==
    IF self.request.id \notin db.Poll
         THEN Raise(db, self, ValidationError([poll_id |-> "poll not found"]))
    ELSE Return(db, self, Response([id |-> self.request.id], 200))

poll_get(db, self) ==
    IF ~check_watchit_uuid(self.request.watchit_uuid) THEN Raise(db, self, WatchitNotFound)
    ELSE IF self.request.id \notin db.Poll
         THEN Raise(db, self, ValidationError([poll_id |-> "poll not found"]))
    ELSE Return(db, self, Response([id |-> self.request.id], 200))

-----------------------------------------------------------------------------
(* A handler as the sequence of its steps *)

Begin(db, self) ==
    CASE self.request.op \in {"default_get", "default_patch"} -> default_begin(db, self)
      [] self.request.op = "default_post" -> post_begin(db, self)
      [] self.request.op = "config_get" -> config_get(db, self)
      [] self.request.op = "config_put" -> put_begin(db, self)
      [] self.request.op = "poll_get" -> poll_get(db, self)

Step(db, self) ==
    CASE self.pc = "start" -> Begin(db, self)
      [] self.pc = "fetch_default" -> fetch_default(db, self)
      [] self.pc = "patch_save" -> patch_save(db, self)
      [] self.pc = "read_old" -> post_read_old(db, self)
      [] self.pc = "save_new" -> post_save_new(db, self)
      [] self.pc = "save_link" -> post_save_link(db, self)
      [] self.pc = "delete_old" -> post_delete_old(db, self)
      [] self.pc = "put_update" -> put_update(db, self)

RECURSIVE Run(_, _)
Run(db, self) == IF self.pc = "done" THEN [db |-> db, self |-> self]
                 ELSE LET s == Step(db, self) IN Run(s.db, s.self)

\* The whole handler of a request, run alone
Handle(db, req) == Run(db, Start(req))

SetDB(db) ==
    /\ EventConfig' = db.EventConfig
    /\ Config' = db.Config
    /\ next_pk' = db.next_pk
    /\ Poll' = db.Poll

-----------------------------------------------------------------------------
(* Spec: one request at a time, each handler one action *)

\* The reply of the request served last, until the client has it
NoReply == [request |-> NoRequest, response |-> NoResponse]

Init ==
    /\ EventConfig = <<>>
    /\ Config = [k \in Kinds |-> <<>>]
    /\ next_pk = [k \in Kinds |-> 1]
    /\ Poll = {1}
    /\ response = NoReply
    /\ requests = [w \in Workers |-> Idle]

\* The config tables hand out MaxId keys
HasKey(db, req) == req.op = "default_post" => db.next_pk[req.kind] <= MaxId

Serve(req) ==
    /\ response = NoReply
    /\ HasKey(DB, req)
    /\ LET r == Handle(DB, req) IN
         /\ SetDB(r.db)
         /\ response' = [request |-> req, response |-> r.self.response]
    /\ UNCHANGED requests

DefaultConfigGet == \E req \in Requests : req.op = "default_get" /\ Serve(req)
DefaultConfigPost == \E req \in Requests : req.op = "default_post" /\ Serve(req)
DefaultConfigPatch == \E req \in Requests : req.op = "default_patch" /\ Serve(req)
ConfigGet == \E req \in Requests : req.op = "config_get" /\ Serve(req)
ConfigPut == \E req \in Requests : req.op = "config_put" /\ Serve(req)
PollGet == \E req \in Requests : req.op = "poll_get" /\ Serve(req)

\* The client receives the reply; the next request can be served
Respond ==
    /\ response # NoReply
    /\ response' = NoReply
    /\ UNCHANGED <<EventConfig, Config, next_pk, Poll, requests>>

Next ==
    \/ DefaultConfigGet
    \/ DefaultConfigPost
    \/ DefaultConfigPatch
    \/ ConfigGet
    \/ ConfigPut
    \/ PollGet
    \/ Respond

Spec == Init /\ [][Next]_vars

-----------------------------------------------------------------------------
(* StepSpec and ConcSpec: a worker runs its request one ORM call at a time *)

InFlight(w) == requests[w].pc \notin {"idle", "done"}

\* Posts in flight that have yet to take their key
PendingKeys(k) ==
    Cardinality({w \in Workers : /\ requests[w].request.op = "default_post"
                                 /\ requests[w].request.kind = k
                                 /\ requests[w].pc \in {"start", "read_old", "save_new"}})

Receive(w, reqs) ==
    /\ requests[w].pc = "idle"
    /\ \E req \in reqs :
         /\ req.op = "default_post" => next_pk[req.kind] + PendingKeys(req.kind) <= MaxId
         /\ requests' = [requests EXCEPT ![w] = Start(req)]
    /\ UNCHANGED <<EventConfig, Config, next_pk, Poll, response>>

\* The next step of the worker's handler
Advance(w) ==
    /\ InFlight(w)
    /\ LET r == Step(DB, requests[w]) IN
         /\ SetDB(r.db)
         /\ requests' = [requests EXCEPT ![w] = r.self]
    /\ UNCHANGED response

\* The handler dies between two steps (the process is killed, the connection drops)
Fail(w) ==
    /\ InFlight(w)
    /\ requests[w].pc # "start"
    /\ requests' = [requests EXCEPT ![w].pc = "done", ![w].response = ServerError("Aborted")]
    /\ UNCHANGED <<EventConfig, Config, next_pk, Poll, response>>

\* The client receives the reply; the worker takes the next request
Reply(w) ==
    /\ requests[w].pc = "done"
    /\ requests' = [requests EXCEPT ![w] = Idle]
    /\ UNCHANGED <<EventConfig, Config, next_pk, Poll, response>>

\* The requests of StepSpec: the default-config handlers of one known event
StepRequests == {req \in Requests : req.op \in DefaultOps /\ req.watchit_uuid \in ScopeWatchits}

StepNext ==
    \/ Receive("w1", StepRequests)
    \/ Advance("w1")
    \/ Fail("w1")
    \/ Reply("w1")

StepSpec == Init /\ [][StepNext]_vars

\* The requests that race in ConcSpec: default-config POSTs and GETs of one event
ConcRequests ==
    {req \in Requests : /\ req.op \in {"default_get", "default_post"}
                        /\ req.watchit_uuid = "e1"
                        /\ req.data \in {NoData, [enabled |-> TRUE, settings |-> 1]}}

ConcNext ==
    \E w \in Workers :
        \/ Receive(w, ConcRequests)
        \/ Advance(w)
        \/ Reply(w)

ConcSpec == Init /\ [][ConcNext]_vars

-----------------------------------------------------------------------------
(* What the claims speak of *)

\* The step serves a request: a reply appears
Served == response = NoReply /\ response' # NoReply
ServedOp(op) == Served /\ response'.request.op = op
StoreUnchanged == UNCHANGED <<EventConfig, Config, next_pk, Poll>>

\* The pk an event's default reference of a kind holds (None: no row, or not set)
DefaultOf(ecs, uuid, k) == IF uuid \in DOMAIN ecs THEN ecs[uuid][RefField(k)] ELSE None
OtherKind(k) == IF k = "poll" THEN "question" ELSE "poll"

\* C1: a request for an event the external system does not know ends, in every
\* handler and whatever its other inputs and the tables hold, with the
\* ValidationError {watchit_uuid: 'watchit not found'} and changes no table.
C1_UnknownWatchit ==
    [][(Served /\ response'.request.watchit_uuid \notin KnownWatchits) =>
         /\ response'.response.raised = "ValidationError"
         /\ DOMAIN response'.response.data = {"watchit_uuid"}
         /\ response'.response.data.watchit_uuid = "watchit not found"
         /\ StoreUnchanged]_vars

C1_Witness ==
    /\ response.request.op = "config_put"
    /\ response.request.watchit_uuid = "ex"
    /\ response.request.id \in DOMAIN Config["poll"]
    /\ response.request.kind = "poll"
    /\ response.response.raised = "ValidationError"

\* C2: a successful default-config POST for an event that has a default of the
\* kind leaves the event linked to the record this POST created, which is new,
\* and the record linked before is gone from the table; nothing else of the
\* kind's table changes.
C2_ReplaceDeletesOld ==
    [][(ServedOp("default_post") /\ response'.response.status = 201
          /\ DefaultOf(EventConfig, response'.request.watchit_uuid, response'.request.kind) # None) =>
         LET u == response'.request.watchit_uuid
             k == response'.request.kind
             old == DefaultOf(EventConfig, u, k)
             new == DefaultOf(EventConfig', u, k) IN
         /\ new # None /\ new # old
         /\ new = response'.response.data.id
         /\ new \notin DOMAIN Config[k]
         /\ DOMAIN Config'[k] = (DOMAIN Config[k] \ {old}) \cup {new}
         /\ \A v \in DOMAIN EventConfig' \ {u} : EventConfig'[v][RefField(k)] # new]_vars

C2_Witness ==
    /\ response.request.op = "default_post"
    /\ response.request.kind = "poll"
    /\ response.request.watchit_uuid = "e1"
    /\ response.response.status = 201
    /\ response.response.data.id = 2
    /\ DOMAIN Config["poll"] = {2}
    /\ DOMAIN EventConfig = {"e1"}

\* C3: a successful default-config POST for a known event that has no
\* EventConfig creates that one EventConfig row and one record of the kind,
\* links the row to the record, deletes nothing, changes nothing else, and
\* returns 201 with the record's data.
C3_FirstPostCreates ==
    [][(ServedOp("default_post") /\ response'.request.watchit_uuid \in KnownWatchits
          /\ is_valid(response'.request.data)
          /\ response'.request.watchit_uuid \notin DOMAIN EventConfig) =>
         LET u == response'.request.watchit_uuid
             k == response'.request.kind
             new == next_pk[k] IN
         /\ response'.response.status = 201 /\ response'.response.raised = ""
         /\ DOMAIN EventConfig' = DOMAIN EventConfig \cup {u}
         /\ \A v \in DOMAIN EventConfig : EventConfig'[v] = EventConfig[v]
         /\ EventConfig'[u][RefField(k)] = new
         /\ EventConfig'[u][RefField(OtherKind(k))] = None
         /\ new \notin DOMAIN Config[k]
         /\ DOMAIN Config'[k] = DOMAIN Config[k] \cup {new}
         /\ \A pk \in DOMAIN Config[k] : Config'[k][pk] = Config[k][pk]
         /\ Config'[k][new] = [enabled |-> response'.request.data.enabled,
                               settings |-> response'.request.data.settings]
         /\ Config'[OtherKind(k)] = Config[OtherKind(k)]
         /\ Poll' = Poll
         /\ response'.response.data =
              [id |-> new, enabled |-> Config'[k][new].enabled,
               settings |-> Config'[k][new].settings]]_vars

C3_Witness ==
    /\ response.request.op = "default_post"
    /\ response.request.kind = "question"
    /\ response.request.watchit_uuid = "e2"
    /\ response.response.status = 201
    /\ next_pk["poll"] = 2
    /\ DOMAIN EventConfig = {"e1", "e2"}
    /\ EventConfig["e2"] = [default_polls_config |-> None, default_questions_config |-> 1]

\* C4: PATCH on a known event with a linked default of the kind negates that
\* record's enabled flag in the table, returns 200 with {enabled: new value},
\* and changes neither the link nor any other field or record; a second PATCH
\* right after the first restores the tables as they were.
C4_PatchTwiceRestores ==
    \A u \in KnownWatchits, k \in Kinds :
        DefaultOf(EventConfig, u, k) # None =>
            LET req == [op |-> "default_patch", kind |-> k, watchit_uuid |-> u,
                        id |-> None, data |-> NoData]
                once == Handle(DB, req)
                twice == Handle(once.db, req) IN
            /\ once.self.response.status = 200
            /\ twice.self.response.status = 200
            /\ once.db # DB
            /\ twice.db = DB

C4_PatchFlips ==
    /\ []C4_PatchTwiceRestores
    /\ [][(ServedOp("default_patch") /\ response'.request.watchit_uuid \in KnownWatchits
             /\ DefaultOf(EventConfig, response'.request.watchit_uuid, response'.request.kind) # None) =>
            LET u == response'.request.watchit_uuid
                k == response'.request.kind
                pk == DefaultOf(EventConfig, u, k) IN
            /\ response'.response.status = 200 /\ response'.response.raised = ""
            /\ response'.response.data = [enabled |-> ~Config[k][pk].enabled]
            /\ DOMAIN Config'[k] = DOMAIN Config[k]
            /\ Config'[k][pk].enabled = ~Config[k][pk].enabled
            /\ Config'[k][pk].settings = Config[k][pk].settings
            /\ \A other \in DOMAIN Config[k] \ {pk} : Config'[k][other] = Config[k][other]
            /\ UNCHANGED <<EventConfig, next_pk, Poll>>
            /\ Config'[OtherKind(k)] = Config[OtherKind(k)]]_vars

C4_Witness ==
    /\ response.request.op = "default_patch"
    /\ response.request.kind = "question"
    /\ response.request.watchit_uuid = "e2"
    /\ response.response.status = 200
    /\ response.response.data = [enabled |-> FALSE]
    /\ ~Config["question"][EventConfig["e2"].default_questions_config].enabled
    /\ Cardinality(DOMAIN Config["question"]) = 2

\* C5 as claimed: PATCH on a known event with no linked default of the kind,
\* whether the EventConfig row is missing or its reference unset, raises
\* {watchit_uuid: '<kind> config not found'} and creates nothing.
C5_AsClaimed ==
    [][(ServedOp("default_patch") /\ response'.request.watchit_uuid \in KnownWatchits
          /\ DefaultOf(EventConfig, response'.request.watchit_uuid, response'.request.kind) = None) =>
         /\ response'.response.raised = "ValidationError"
         /\ response'.response.data =
              [watchit_uuid |-> IF response'.request.kind = "poll"
                                THEN "poll config not found" ELSE "question config not found"]
         /\ StoreUnchanged]_vars

\* C5, amended: PATCH on a known event with no linked default of the kind
\* raises a ValidationError on watchit_uuid and creates nothing; the message is
\* '<kind> config not found' when the EventConfig row exists with the reference
\* unset, and 'event config not found' when the row is missing.
C5_PatchNotFound ==
    [][(ServedOp("default_patch") /\ response'.request.watchit_uuid \in KnownWatchits
          /\ DefaultOf(EventConfig, response'.request.watchit_uuid, response'.request.kind) = None) =>
         /\ response'.response.raised = "ValidationError"
         /\ response'.response.data =
              [watchit_uuid |->
                 IF response'.request.watchit_uuid \notin DOMAIN EventConfig
                 THEN "event config not found"
                 ELSE IF response'.request.kind = "poll"
                      THEN "poll config not found" ELSE "question config not found"]
         /\ StoreUnchanged]_vars

C5_Witness ==
    /\ response.request.op = "default_patch"
    /\ response.request.watchit_uuid = "e2"
    /\ response.response.data = [watchit_uuid |-> "event config not found"]
    /\ "e2" \notin DOMAIN EventConfig
    /\ "e1" \in DOMAIN EventConfig

\* C7 as claimed: a GET that finds no config raises
\* {<kind>_configuration_id: '<kind> config not found'}, on the default-config
\* path (row without a default of the kind) and on the per-resource path.
C7_AsClaimed ==
    [][(Served /\ response'.request.watchit_uuid \in KnownWatchits
          /\ \/ /\ response'.request.op = "default_get"
                /\ response'.request.watchit_uuid \in DOMAIN EventConfig
                /\ DefaultOf(EventConfig, response'.request.watchit_uuid, response'.request.kind) = None
             \/ /\ response'.request.op = "config_get"
                /\ response'.request.id \notin DOMAIN Config[response'.request.kind]) =>
         /\ response'.response.raised = "ValidationError"
         /\ response'.response.data =
              IF response'.request.kind = "poll"
              THEN [poll_configuration_id |-> "poll config not found"]
              ELSE [question_configuration_id |-> "question config not found"]]_vars

\* C7, amended: a GET that finds no config raises '<kind> config not found';
\* the field is <kind>_configuration_id on the per-resource path and
\* watchit_uuid on the default-config path.
C7_GetNotFound ==
    [][(Served /\ response'.request.watchit_uuid \in KnownWatchits
          /\ \/ /\ response'.request.op = "default_get"
                /\ response'.request.watchit_uuid \in DOMAIN EventConfig
                /\ DefaultOf(EventConfig, response'.request.watchit_uuid, response'.request.kind) = None
             \/ /\ response'.request.op = "config_get"
                /\ response'.request.id \notin DOMAIN Config[response'.request.kind]) =>
         /\ response'.response.raised = "ValidationError"
         /\ response'.response.data =
              IF response'.request.op = "default_get"
              THEN [watchit_uuid |-> IF response'.request.kind = "poll"
                                     THEN "poll config not found" ELSE "question config not found"]
              ELSE IF response'.request.kind = "poll"
                   THEN [poll_configuration_id |-> "poll config not found"]
                   ELSE [question_configuration_id |-> "question config not found"]
         /\ StoreUnchanged]_vars

C7_Witness ==
    /\ response.request.op = "default_get"
    /\ response.request.kind = "question"
    /\ response.request.watchit_uuid = "e1"
    /\ "e1" \in DOMAIN EventConfig
    /\ EventConfig["e1"].default_questions_config = None
    /\ response.response.data = [watchit_uuid |-> "question config not found"]

\* C9: a default-config POST for a known event whose payload the serializer
\* rejects returns 400 with the serializer's errors and changes no table: no
\* EventConfig row, no record, no link.
C9_InvalidPostNoEffect ==
    [][(ServedOp("default_post") /\ response'.request.watchit_uuid \in KnownWatchits
          /\ ~(RequiredFields \subseteq DOMAIN response'.request.data)) =>
         /\ response'.response.status = 400
         /\ response'.response.raised = ""
         /\ DOMAIN response'.response.data = RequiredFields \ DOMAIN response'.request.data
         /\ StoreUnchanged]_vars

C9_Witness ==
    /\ response.request.op = "default_post"
    /\ response.request.watchit_uuid = "e2"
    /\ response.response.status = 400
    /\ response.response.raised = ""
    /\ "e2" \notin DOMAIN EventConfig
    /\ "e1" \in DOMAIN EventConfig

\* The event's default reference of the kind is set and its record exists
LiveDefault(u, k) ==
    /\ DefaultOf(EventConfig, u, k) # None
    /\ DefaultOf(EventConfig, u, k) \in DOMAIN Config[k]

\* The order of a default-config POST's steps, read off the worker's position
C6_Order ==
    LET self == requests["w1"]
        k == self.request.kind
        u == self.request.watchit_uuid IN
    self.request.op = "default_post" =>
        /\ self.pc = "save_new" =>
             /\ self.new_config = None
             /\ self.old_config = DefaultOf(EventConfig, u, k)
        /\ self.pc = "save_link" =>
             /\ self.new_config \in DOMAIN Config[k]
             /\ self.old_config = DefaultOf(EventConfig, u, k)
             /\ self.old_config # None => self.old_config \in DOMAIN Config[k]
        /\ self.pc = "delete_old" =>
             /\ DefaultOf(EventConfig, u, k) = self.new_config
             /\ self.new_config \in DOMAIN Config[k]
             /\ self.old_config # None => self.old_config \in DOMAIN Config[k]
        /\ (self.pc = "done" /\ self.response.status = 201) =>
             /\ DefaultOf(EventConfig, u, k) = self.new_config
             /\ self.new_config \in DOMAIN Config[k]
             /\ self.old_config \notin DOMAIN Config[k]

\* C6: a replacing POST captures the old reference, persists the new record,
\* links it and saves, and only then deletes the old record; so an event that
\* has a default of a kind keeps a set reference to an existing record through
\* every step of the POST, and after the POST dies between any two steps.
C6_DefaultNeverLost ==
    /\ []C6_Order
    /\ [][\A u \in KnownWatchits, k \in Kinds : LiveDefault(u, k) => LiveDefault(u, k)']_vars

C6_Witness ==
    LET self == requests["w1"] IN
    /\ self.request.op = "default_post"
    /\ self.request.kind = "poll"
    /\ self.pc = "done"
    /\ self.response.raised = "Aborted"
    /\ self.old_config # None
    /\ self.old_config \in DOMAIN Config["poll"]
    /\ self.new_config \in DOMAIN Config["poll"]
    /\ EventConfig["e1"].default_polls_config = self.new_config

\* A default-config POST that has returned 201
Posted(self, u, k) ==
    /\ self.pc = "done"
    /\ self.request.op = "default_post"
    /\ self.request.watchit_uuid = u
    /\ self.request.kind = k
    /\ self.response.status = 201

\* C8: two default-config POSTs of one kind for one event, their store steps
\* interleaved in any order (the second to load the row saw the reference the
\* first had found or the one it wrote), have both returned: the event refers
\* to one existing record that one of them created, the record that was the
\* default before is deleted, and no record either created is left unlinked.
C8_AsClaimed ==
    \A a, b \in Workers, u \in KnownWatchits, k \in Kinds :
        LET A == requests[a]
            B == requests[b] IN
        (/\ a # b
         /\ Posted(A, u, k) /\ Posted(B, u, k)
         /\ B.old_config \in {A.old_config, A.new_config}) =>
            /\ LiveDefault(u, k)
            /\ DefaultOf(EventConfig, u, k) \in {A.new_config, B.new_config}
            /\ A.old_config \notin DOMAIN Config[k]
            /\ \A new \in {A.new_config, B.new_config} :
                 new \in DOMAIN Config[k] => new = DefaultOf(EventConfig, u, k)

\* C10: a poll POST and a question POST for one event, their store steps
\* interleaved in any order (each loaded the row as the other found or left
\* it), have both returned: the poll default is the record the poll POST
\* created, the question default the one the question POST created, and both
\* records exist.
C10_AsClaimed ==
    \A a, b \in Workers, u \in KnownWatchits :
        LET A == requests[a]
            B == requests[b] IN
        (/\ a # b
         /\ Posted(A, u, "poll") /\ Posted(B, u, "question")
         /\ B.event_config.default_polls_config \in {A.old_config, A.new_config}
         /\ A.event_config.default_questions_config \in {B.old_config, B.new_config}) =>
            /\ DefaultOf(EventConfig, u, "poll") = A.new_config
            /\ DefaultOf(EventConfig, u, "question") = B.new_config
            /\ LiveDefault(u, "poll")
            /\ LiveDefault(u, "question")

====
